---- MODULE Spec2Model ----
(***************************************************************************)
(* Model of src/holographic_kernel.c: the vector generator, the pattern     *)
(* store (encode / retrieve / eviction), the entity arena (initialize,      *)
(* spawn) and the per-cycle update (neighbour rules, mutation, alignment,   *)
(* marking, apply, compaction).                                             *)
(*                                                                          *)
(* Representation choices                                                   *)
(*  - A uint32_t that can exceed 2^31-1 (hash signatures, the LCG seed) is  *)
(*    a pair <<hi, lo>> of 16-bit limbs; arithmetic is done limb by limb    *)
(*    modulo 2^32 as the C code does.                                       *)
(*  - A HolographicVector is [hash_signature, neg, valid].  Its data[] is   *)
(*    never written except by create_holographic_vector (which derives all  *)
(*    512 components from the signature) and by the one-component sign      *)
(*    flip of the spawn rule, so data[] is determined by the signature and  *)
(*    by the set neg of components whose sign bit has been flipped an odd   *)
(*    number of times.  valid = 0 is the zero-initialised vector.           *)
(*  - A pointer into memory_pool is [kind |-> "pool", idx |-> i]; a pointer *)
(*    to a local variable of a function that has returned is                *)
(*    [kind |-> "stack"]; the null pointer is NULL.                         *)
(***************************************************************************)
EXTENDS Integers, Sequences, FiniteSets, TLC

VARIABLES
    holo_system,          \* struct HolographicSystem (+ history field `inserted`)
    entity_pool,          \* struct Entity entity_pool[MAX_ENTITIES]
    active_entity_count,  \* uint32_t active_entity_count
    next_uid,             \* history: number of entities created so far
    collected,            \* history: the uids of the entities collected so far
    last,                 \* history: what the most recent call did
    calls,                \* history: the calls the driver has made, in order
    loop                  \* kmain's loop: its position, last_update and, as
                          \* history, the numbers of updates and renders

vars == <<holo_system, entity_pool, active_entity_count, next_uid, collected,
          last, calls, loop>>

----------------------------------------------------------------------------
(* Program constants *)

HOLOGRAPHIC_DIMENSIONS == 512
MAX_MEMORY_ENTRIES == 128
MAX_ENTITIES == 32
INITIAL_ENTITIES == 3

NULL == [kind |-> "null"]

Min(a, b) == IF a < b THEN a ELSE b

\* A C array of n elements is a sequence of length n; the element with C index
\* i is the (i+1)-th element of the sequence.
At(array, i) == array[i + 1]
Put(array, i, value) == [array EXCEPT ![i + 1] = value]

\* an array of n copies of x
RECURSIVE Filled(_, _)
Filled(x, n) ==
    IF n = 0 THEN <<>>
    ELSE IF n = 1 THEN <<x>>
    ELSE Filled(x, n \div 2) \o Filled(x, n - n \div 2)

----------------------------------------------------------------------------
(* 32-bit unsigned arithmetic on <<hi, lo>> limb pairs *)

W16 == 65536

U32(hi, lo) == <<hi, lo>>

U32Values == (0 .. W16 - 1) \X (0 .. W16 - 1)

\* bit k of a xor bit k of b, in place
XorBit(a, b, k) == ((((a \div k) % 2) + ((b \div k) % 2)) % 2) * k

\* bitwise exclusive or of two bytes
XorBits(a, b) ==
    XorBit(a, b, 1) + XorBit(a, b, 2) + XorBit(a, b, 4) + XorBit(a, b, 8)
    + XorBit(a, b, 16) + XorBit(a, b, 32) + XorBit(a, b, 64) + XorBit(a, b, 128)

\* x ^ byte, byte < 256
XorByte(x, byte) ==
    U32(x[1], (x[2] \div 256) * 256 + XorBits(x[2] % 256, byte))

\* x * c modulo 2^32; both limbs of c are below 2^15 so no partial product
\* leaves the range of the model checker's integers
MulU32(x, c) ==
    LET p0 == x[2] * c[2]
        p1 == (x[1] * c[2]) % W16
        p2 == (x[2] * c[1]) % W16
    IN  U32((p0 \div W16 + p1 + p2) % W16, p0 % W16)

\* x + k modulo 2^32, 0 <= k < 2^16
AddU32(x, k) ==
    LET s == x[2] + k
    IN  U32((x[1] + s \div W16) % W16, s % W16)

\* x & 0x7fffffff, as an integer below 2^31
Mask31(x) == (x[1] % 32768) * W16 + x[2]

FromInt31(n) == U32(n \div W16, n % W16)

----------------------------------------------------------------------------
(* hash_data: FNV-1a over a byte sequence *)

FNV_OFFSET == U32(33052, 40389)      \* 2166136261U = 0x811C9DC5
FNV_PRIME  == U32(256, 403)          \* 16777619U   = 0x01000193

\* the loop of hash_data from byte i on; hash is a uint32_t throughout
RECURSIVE HashFrom(_, _, _)
HashFrom(hash, data, i) ==
    IF hash \in U32Values /\ i <= Len(data)
    THEN HashFrom(MulU32(XorByte(hash, data[i]), FNV_PRIME), data, i + 1)
    ELSE hash

hash_data(data) == HashFrom(FNV_OFFSET, data, 1)

----------------------------------------------------------------------------
(* create_holographic_vector *)

LCG_MUL == U32(16838, 20077)         \* 1103515245 = 0x41C64E6D
LCG_INC == 12345

\* seed = (seed * 1103515245 + 12345) & 0x7fffffff
LcgStep(seed) == Mask31(AddU32(MulU32(FromInt31(seed), LCG_MUL), LCG_INC))

\* the seed used for dimension 0 is one step from the (masked or not) signature
FirstSeed(sig) == Mask31(AddU32(MulU32(sig, LCG_MUL), LCG_INC))

create_holographic_vector(input) ==
    [hash_signature |-> hash_data(input), neg |-> {}, valid |-> 1]

\* HolographicVector v = {0}: storage that was zero-initialised
ZeroVector == [hash_signature |-> U32(0, 0), neg |-> {}, valid |-> 0]

\* the strings of the kernel, as the bytes passed (strlen + 1: with the NUL)
StrTraitDormant == <<84, 82, 65, 73, 84, 95, 68, 79, 82, 77, 65, 78, 84, 0>>
StrTraitActive  == <<84, 82, 65, 73, 84, 95, 65, 67, 84, 73, 86, 69, 0>>
StrGenomeRule   == <<71, 69, 78, 79, 77, 69, 95, 83, 73, 77, 80, 76, 69, 95,
                     82, 85, 76, 69, 95, 49, 0>>
StrNetworkPath  == <<110, 101, 116, 119, 111, 114, 107, 95, 105, 111, 95,
                     112, 97, 116, 104, 0>>

VecTraitDormant == create_holographic_vector(StrTraitDormant)
VecTraitActive  == create_holographic_vector(StrTraitActive)
VecGenomeRule   == create_holographic_vector(StrGenomeRule)
VecNetworkPath  == create_holographic_vector(StrNetworkPath)


\* the LCG values of n consecutive dimensions, the first of which gets `seed`
\* (the run is computed in two halves to keep the evaluation shallow)
RECURSIVE SeedsFrom(_, _)
SeedsFrom(seed, n) ==
    IF n = 0 THEN <<>>
    ELSE IF n = 1 THEN <<seed>>
    ELSE LET left == SeedsFrom(seed, n \div 2)
         IN  left \o SeedsFrom(LcgStep(left[Len(left)]), n - n \div 2)

Seeds(sig) == SeedsFrom(FirstSeed(sig), HOLOGRAPHIC_DIMENSIONS)

\* if ((seed % 10) == 0): the dimension gets a value, otherwise 0.0f
IsActiveDim(seed) == seed % 10 = 0

\* (seed % 2000) - 1000 in uint32_t arithmetic: seed is a uint32_t, so the
\* subtraction wraps modulo 2^32 when seed % 2000 < 1000
Numerator(seed) ==
    LET r == seed % 2000
    IN  IF r >= 1000 THEN U32(0, r - 1000)
        ELSE U32(W16 - 1, W16 - (1000 - r))

\* the dimensions whose numerator wrapped: their value is about 2^32 / 1000
WrappedDims(sig) ==
    LET s == Seeds(sig)
    IN  {d \in 0 .. HOLOGRAPHIC_DIMENSIONS - 1 :
            IsActiveDim(s[d + 1]) /\ Numerator(s[d + 1])[1] > 0}

\* vector.active_dimensions
ActiveDimensions(sig) ==
    LET s == Seeds(sig)
    IN  Cardinality({d \in 0 .. HOLOGRAPHIC_DIMENSIONS - 1 : IsActiveDim(s[d + 1])})

\* the vectors entities hold as state or task; their data is computed once
KernelSignatures ==
    {VecTraitDormant.hash_signature, VecTraitActive.hash_signature,
     VecNetworkPath.hash_signature}

SeedsTable == [sig \in KernelSignatures |-> Seeds(sig)]

SeedsOf(sig) == IF sig \in KernelSignatures THEN SeedsTable[sig] ELSE Seeds(sig)

\* data[d] of a vector, as <<sign bit, numerator>>: the value is
\* (-1)^sign * (float)numerator / 1000.0f; zero-initialised data is all +0.0f
Component(v, d) ==
    LET seed == SeedsOf(v.hash_signature)[d + 1]
    IN  <<IF d \in v.neg THEN 1 ELSE 0,
          IF v.valid # 0 /\ IsActiveDim(seed) THEN Numerator(seed) ELSE U32(0, 0)>>

\* a == b on floats: equal magnitudes and, unless both are zero, equal signs
FloatEqual(a, b) == a[2] = b[2] /\ (a[2] = U32(0, 0) \/ a[1] = b[1])

\* the dimensions in which two vectors hold different values
DifferingDimensions(v, w) ==
    {d \in 0 .. HOLOGRAPHIC_DIMENSIONS - 1 :
        ~FloatEqual(Component(v, d), Component(w, d))}

WrappedTable == [sig \in KernelSignatures |-> WrappedDims(sig)]

WrappedOf(sig) ==
    IF sig \in KernelSignatures THEN WrappedTable[sig] ELSE WrappedDims(sig)

----------------------------------------------------------------------------
(* The pattern store: struct HolographicSystem holo_system *)

ZeroEntry ==
    [input_pattern |-> ZeroVector, output_pattern |-> ZeroVector,
     timestamp |-> 0, valid |-> 0]

\* the global before any call: zero-initialised storage
ZeroHoloSystem ==
    [memory_pool |-> Filled(ZeroEntry, MAX_MEMORY_ENTRIES),
     memory_count |-> 0,
     global_timestamp |-> 0,
     inserted |-> <<>>]   \* history: every record encoded since the last reset

\* a mutant of encode_holographic_memory: a full store overwrites its newest
\* record instead of evicting its oldest
encode_overwrites_newest(hs, input, output) ==
    LET full == hs.memory_count >= MAX_MEMORY_ENTRIES
        count == IF full THEN MAX_MEMORY_ENTRIES - 1 ELSE hs.memory_count
        entry == [input_pattern |-> input, output_pattern |-> output,
                  timestamp |-> hs.global_timestamp, valid |-> 1]
    IN  [memory_pool |-> Put(hs.memory_pool, count, entry),
         memory_count |-> count + 1,
         global_timestamp |-> hs.global_timestamp + 1,
         inserted |-> Append(hs.inserted,
                             [input_pattern |-> input, output_pattern |-> output])]

encode_holographic_memory(hs, input, output) ==
    LET full == hs.memory_count >= MAX_MEMORY_ENTRIES
        \* pool[i] = pool[i + 1] for i < MAX - 1; the last slot keeps its value
        shifted == IF full
                   THEN Append(Tail(hs.memory_pool),
                               At(hs.memory_pool, MAX_MEMORY_ENTRIES - 1))
                   ELSE hs.memory_pool
        count == IF full THEN MAX_MEMORY_ENTRIES - 1 ELSE hs.memory_count
        entry == [input_pattern |-> input, output_pattern |-> output,
                  timestamp |-> hs.global_timestamp, valid |-> 1]
    IN  [memory_pool |-> Put(shifted, count, entry),
         memory_count |-> count + 1,
         global_timestamp |-> hs.global_timestamp + 1,
         inserted |-> Append(hs.inserted,
                             [input_pattern |-> input, output_pattern |-> output])]

\* valid && input_pattern.hash_signature == hash, for slot i
SlotMatches(hs, hash, i) ==
    /\ At(hs.memory_pool, i).valid = 1
    /\ At(hs.memory_pool, i).input_pattern.hash_signature = hash

\* a mutant of retrieve_holographic_memory: the scan runs upwards from slot
\* 0 and returns the oldest match
RECURSIVE RetrieveOldestIn(_, _, _, _)
RetrieveOldestIn(hs, hash, lo, hi) ==
    IF lo > hi THEN NULL
    ELSE IF lo = hi
    THEN IF SlotMatches(hs, hash, lo) THEN [kind |-> "pool", idx |-> lo] ELSE NULL
    ELSE LET mid == (lo + hi) \div 2
             lower == RetrieveOldestIn(hs, hash, lo, mid)
         IN  IF lower # NULL THEN lower
             ELSE RetrieveOldestIn(hs, hash, mid + 1, hi)

retrieve_oldest(hs, hash) == RetrieveOldestIn(hs, hash, 0, hs.memory_count - 1)

\* the loop of retrieve_holographic_memory over the slots lo .. hi: the slots
\* are visited from hi down to lo and the first match is returned (the range
\* is searched upper half first to keep the evaluation shallow)
RECURSIVE RetrieveIn(_, _, _, _)
RetrieveIn(hs, hash, lo, hi) ==
    IF lo > hi THEN NULL
    ELSE IF lo = hi
    THEN IF SlotMatches(hs, hash, lo)
         THEN [kind |-> "pool", idx |-> lo]     \* &memory_pool[i].output_pattern
         ELSE NULL
    ELSE LET mid == (lo + hi) \div 2
             upper == RetrieveIn(hs, hash, mid + 1, hi)
         IN  IF upper # NULL THEN upper
             ELSE RetrieveIn(hs, hash, lo, mid)

retrieve_holographic_memory(hs, hash) == RetrieveIn(hs, hash, 0, hs.memory_count - 1)

initialize_holographic_memory(hs) ==
    [memory_pool |-> [i \in 1 .. MAX_MEMORY_ENTRIES |->
                         [hs.memory_pool[i] EXCEPT !.valid = 0]] \o <<>>,
     memory_count |-> 0,
     global_timestamp |-> 0,
     inserted |-> <<>>]

vocab ==
  <<
    \* ACTION_PRODUCE
    <<65, 67, 84, 73, 79, 78, 95, 80, 82, 79, 68, 85, 67, 69, 0>>,
    \* ACTION_CONSUME
    <<65, 67, 84, 73, 79, 78, 95, 67, 79, 78, 83, 85, 77, 69, 0>>,
    \* ACTION_SHARE
    <<65, 67, 84, 73, 79, 78, 95, 83, 72, 65, 82, 69, 0>>,
    \* ACTION_ACTIVATE
    <<65, 67, 84, 73, 79, 78, 95, 65, 67, 84, 73, 86, 65, 84, 69,
      0>>,
    \* ACTION_DEACTIVATE
    <<65, 67, 84, 73, 79, 78, 95, 68, 69, 65, 67, 84, 73, 86, 65,
      84, 69, 0>>,
    \* TRAIT_GENERIC
    <<84, 82, 65, 73, 84, 95, 71, 69, 78, 69, 82, 73, 67, 0>>,
    \* TRAIT_ACTIVE
    <<84, 82, 65, 73, 84, 95, 65, 67, 84, 73, 86, 69, 0>>,
    \* TRAIT_DORMANT
    <<84, 82, 65, 73, 84, 95, 68, 79, 82, 77, 65, 78, 84, 0>>,
    \* SENSOR_NEIGHBOR_ACTIVE
    <<83, 69, 78, 83, 79, 82, 95, 78, 69, 73, 71, 72, 66, 79, 82,
      95, 65, 67, 84, 73, 86, 69, 0>>,
    \* SENSOR_MEMORY_MATCH
    <<83, 69, 78, 83, 79, 82, 95, 77, 69, 77, 79, 82, 89, 95, 77,
      65, 84, 67, 72, 0>>,
    \* GENOME_SIMPLE_RULE_1
    <<71, 69, 78, 79, 77, 69, 95, 83, 73, 77, 80, 76, 69, 95, 82,
      85, 76, 69, 95, 49, 0>>
  >>

\* for i in vocab: pattern = create(vocab[i]); encode(&pattern, &pattern)
RECURSIVE EncodePatterns(_, _, _)
EncodePatterns(hs, strings, i) ==
    IF hs.memory_count <= MAX_MEMORY_ENTRIES /\ i <= Len(strings)
    THEN LET pattern == create_holographic_vector(strings[i])
         IN  EncodePatterns(encode_holographic_memory(hs, pattern, pattern),
                            strings, i + 1)
    ELSE hs

load_initial_genome_vocabulary(hs) == EncodePatterns(hs, vocab, 1)

----------------------------------------------------------------------------
(* struct Entity and the arena *)

\* the float constants of the initialisers, in tenths
TENTHS_SPECIALIZATION == 1    \* 0.1f
TENTHS_RESOURCE == 10         \* 1.0f
TENTHS_CONFIDENCE == 5        \* 0.5f
MAX_ENTITY_DOMAINS == 8

\* a task_alignment value: num / sqrt(den2); 0.0f is [num |-> 0, den2 |-> 1]
AlignmentZero == [num |-> 0, den2 |-> 1]

\* a slot of the zero-initialised global entity_pool
ZeroEntity ==
    [id |-> 0, state |-> ZeroVector, genome |-> NULL, age |-> 0,
     interaction_count |-> 0, is_active |-> 0,
     specialization_scores |-> [j \in 0 .. MAX_ENTITY_DOMAINS - 1 |-> 0],
     resource_allocation |-> 0, confidence |-> 0, domain_name |-> "",
     task_vector |-> ZeroVector, path_id |-> 0, task_alignment |-> AlignmentZero,
     fitness_score |-> 0, spawn_count |-> 0, marked_for_gc |-> 0, is_mutant |-> 0,
     uid |-> 0]     \* uid: history, the serial number of the entity's creation

ZeroPool == Filled(ZeroEntity, MAX_ENTITIES)

\* lines 264-270 and 323-328: look the genome record up; when it is missing,
\* encode it and keep the address of the local variable
GenomeOr(hs, genome_ptr) ==
    IF genome_ptr = NULL
    THEN [hs |-> encode_holographic_memory(hs, VecGenomeRule, VecGenomeRule),
          genome_ptr |-> [kind |-> "stack"]]
    ELSE [hs |-> hs, genome_ptr |-> genome_ptr]

GenomeLookup(hs) ==
    GenomeOr(hs, retrieve_holographic_memory(hs, VecGenomeRule.hash_signature))

\* the body of the loop of initialize_emergent_entities for one entity
InitializedEntity(old, index, genome_ptr, uid) ==
    [old EXCEPT
        !.id = index, !.age = 0, !.interaction_count = 0, !.is_active = 1,
        !.state = VecTraitDormant, !.genome = genome_ptr,
        !.specialization_scores =
            [j \in 0 .. MAX_ENTITY_DOMAINS - 1 |-> TENTHS_SPECIALIZATION],
        !.resource_allocation = TENTHS_RESOURCE,
        !.confidence = TENTHS_CONFIDENCE,
        !.fitness_score = 0, !.spawn_count = 0, !.marked_for_gc = 0,
        !.is_mutant = 0, !.task_alignment = AlignmentZero,
        !.domain_name = "generic", !.uid = uid]

RECURSIVE InitializeLoop(_, _, _, _, _)
InitializeLoop(pool, count, uid, genome_ptr, i) ==
    IF i >= INITIAL_ENTITIES \/ count >= MAX_ENTITIES
    THEN [pool |-> pool, count |-> count, uid |-> uid]
    ELSE InitializeLoop(
            Put(pool, count,
                InitializedEntity(At(pool, count), count, genome_ptr, uid + 1)),
            count + 1, uid + 1, genome_ptr, i + 1)

\* result: the store, the arena, the count and the uid counter after the call
Initialized(g, r) ==
    [hs |-> g.hs, pool |-> r.pool, count |-> r.count, uid |-> r.uid]

InitializeWith(pool, count, uid, g) ==
    Initialized(g, InitializeLoop(pool, count, uid, g.genome_ptr, 0))

initialize_emergent_entities(hs, pool, count, uid) ==
    InitializeWith(pool, count, uid, GenomeLookup(hs))

\* result: as above, and ret = the index of the new entity or NULL
SpawnWith(pool, count, uid, g) ==
    [hs |-> g.hs,
     pool |-> Put(pool, count,
                [At(pool, count) EXCEPT
                    !.id = count, !.age = 0, !.interaction_count = 0,
                    !.is_active = 1, !.fitness_score = 0, !.spawn_count = 0,
                    !.marked_for_gc = 0, !.is_mutant = 0,
                    !.state = VecTraitDormant, !.genome = g.genome_ptr,
                    !.specialization_scores =
                        [j \in 0 .. MAX_ENTITY_DOMAINS - 1 |-> TENTHS_SPECIALIZATION],
                    !.resource_allocation = TENTHS_RESOURCE,
                    !.confidence = TENTHS_CONFIDENCE,
                    !.task_alignment = AlignmentZero,
                    !.domain_name = "emergent", !.uid = uid + 1]),
     count |-> count + 1, uid |-> uid + 1,
     ret |-> [kind |-> "entity", idx |-> count]]

\* a mutant of spawn_entity: on a full arena the last slot is taken over
spawn_over_last(hs, pool, count, uid) ==
    SpawnWith(pool, Min(count, MAX_ENTITIES - 1), uid, GenomeLookup(hs))

spawn_entity(hs, pool, count, uid) ==
    IF count >= MAX_ENTITIES
    THEN [hs |-> hs, pool |-> pool, count |-> count, uid |-> uid, ret |-> NULL]
    ELSE SpawnWith(pool, count, uid, GenomeLookup(hs))

----------------------------------------------------------------------------
(* update_entities *)

SPAWN_BONUS == 10
ALIGN_BONUS == 5
GC_AGE == 1000
GC_FITNESS == 50

\* child->state.data[rand_dim] = -child->state.data[rand_dim]
FlipSign(v, d) ==
    [v EXCEPT !.neg = IF d \in @ THEN @ \ {d} ELSE @ \cup {d}]

\* lines 439-448.  Every non-zero component is either below 1 in magnitude or,
\* where the numerator wrapped, about 2^32/1000; with the vectors of this
\* kernel (all of which have wrapped components) the single-precision sums
\* are the sums over the wrapped components, so that
\*   dot / (mag1 * mag2) = (agreeing - disagreeing common wrapped components)
\*                         / sqrt(wrapped(state) * wrapped(task))
\* to within the 0.3% of the reciprocal-square-root approximation.
CosineSimilarity(state, task) ==
    LET ws == WrappedOf(state.hash_signature)
        wt == WrappedOf(task.hash_signature)
        common == ws \cap wt
        opposed == {d \in common : (d \in state.neg) # (d \in task.neg)}
    IN  [num |-> Cardinality(common) - 2 * Cardinality(opposed),
         den2 |-> Cardinality(ws) * Cardinality(wt)]

\* next_task_alignment[i] > 0.7f
AboveThreshold(a) == a.num > 0 /\ 100 * a.num * a.num > 49 * a.den2

\* a mutant of RuleOf: the spawn rule fires while the arena has any free slot
rule_spawns_to_capacity(is_active, neighbor_active, count) ==
    IF is_active = 0 /\ neighbor_active > 0 THEN "activate"
    ELSE IF is_active = 1 /\ neighbor_active = 0 THEN "sleep"
    ELSE IF is_active = 1 /\ neighbor_active >= 2 /\ count < MAX_ENTITIES
         THEN "spawn"
         ELSE "none"

RuleOf(is_active, neighbor_active, count) ==
    IF is_active = 0 /\ neighbor_active > 0 THEN "activate"
    ELSE IF is_active = 1 /\ neighbor_active = 0 THEN "sleep"
    ELSE IF is_active = 1 /\ neighbor_active >= 2 /\ count < MAX_ENTITIES - 1
         THEN "spawn"
         ELSE "none"

\* a mutant of MutateChild: the child keeps its own zeroed task vector
mutate_without_task(child, entity, rand_dim) ==
    [child EXCEPT
        !.genome = entity.genome, !.is_mutant = 1,
        !.state = FlipSign(entity.state, rand_dim),
        !.path_id = entity.path_id,
        !.task_alignment = entity.task_alignment]

\* lines 413-428: the child spawn_entity returned, made a mutant of its parent
MutateChild(child, entity, rand_dim) ==
    [child EXCEPT
        !.genome = entity.genome, !.is_mutant = 1,
        !.state = FlipSign(entity.state, rand_dim),
        !.task_vector = entity.task_vector,
        !.path_id = entity.path_id,
        !.task_alignment = entity.task_alignment]

\* a mutant of RewardParent: the fitness is assigned, not added to
reward_parent_resets(entity) ==
    [entity EXCEPT !.spawn_count = @ + 1, !.fitness_score = SPAWN_BONUS]

\* lines 432-433: entity->spawn_count++; entity->fitness_score += 10
RewardParent(entity) ==
    [entity EXCEPT !.spawn_count = @ + 1, !.fitness_score = @ + SPAWN_BONUS]

\* a mutant of Neighbors: an entity is not counted as its own neighbour
neighbors_without_self(pool, count, i) ==
    LET prev_idx == IF i = 0 THEN count - 1 ELSE i - 1
        next_idx == IF i = count - 1 THEN 0 ELSE i + 1
    IN  [prev_idx |-> prev_idx, next_idx |-> next_idx,
         neighbor_active |->
            (IF prev_idx # i /\ At(pool, prev_idx).is_active # 0 THEN 1 ELSE 0)
          + (IF next_idx # i /\ At(pool, next_idx).is_active # 0 THEN 1 ELSE 0)]

\* lines 380-384: the neighbours entity i reads and how many are active
Neighbors(pool, count, i) ==
    LET prev_idx == IF i = 0 THEN count - 1 ELSE i - 1
        next_idx == IF i = count - 1 THEN 0 ELSE i + 1
    IN  [prev_idx |-> prev_idx, next_idx |-> next_idx,
         neighbor_active |->
            (IF At(pool, prev_idx).is_active # 0 THEN 1 ELSE 0)
          + (IF At(pool, next_idx).is_active # 0 THEN 1 ELSE 0)]

\* lines 411-434, sp being what spawn_entity() did and returned
SpawnedChild(st, i, entity, sp) ==
    IF sp.ret = NULL
    THEN [hs |-> sp.hs, pool |-> sp.pool, count |-> sp.count, uid |-> sp.uid,
          spawned |-> FALSE, child |-> ZeroEntity]
    ELSE [hs |-> sp.hs,
          pool |-> Put(Put(sp.pool, st.count,
                           MutateChild(At(sp.pool, st.count), entity,
                               sp.hs.global_timestamp % HOLOGRAPHIC_DIMENSIONS)),
                       i, RewardParent(At(sp.pool, i))),
          count |-> sp.count, uid |-> sp.uid, spawned |-> TRUE,
          child |-> MutateChild(At(sp.pool, st.count), entity,
                        sp.hs.global_timestamp % HOLOGRAPHIC_DIMENSIONS)]

\* lines 378-435: entity->age++ and what the rule does to the store and the
\* arena (the next_* entries are written by EvalScore)
ApplyRule(st, i, aged, rule) ==
    CASE rule \in {"activate", "sleep"} ->
            [hs |-> st.hs,
             pool |-> Put(st.pool, i, [aged EXCEPT !.interaction_count = @ + 1]),
             count |-> st.count, uid |-> st.uid,
             spawned |-> FALSE, child |-> ZeroEntity]
      [] rule = "spawn" ->
            SpawnedChild(st, i, At(st.pool, i),
                         spawn_entity(st.hs, Put(st.pool, i, aged), st.count, st.uid))
      [] OTHER ->
            [hs |-> st.hs, pool |-> Put(st.pool, i, aged),
             count |-> st.count, uid |-> st.uid,
             spawned |-> FALSE, child |-> ZeroEntity]

\* a mutant of MarksForGc: the fitness threshold itself is collected too
marks_at_threshold(age, fitness) == age > GC_AGE /\ fitness <= GC_FITNESS

\* line 459: entity->age > 1000 && entity->fitness_score < 50
MarksForGc(age, fitness) == age > GC_AGE /\ fitness < GC_FITNESS

\* lines 438-464 and the next_* entries of index i (lines 370-376, 388-390,
\* 399-401, 448); r: the result of the rule, alignment: next_task_alignment[i]
EvalScore(st, i, entity, nb, rule, r, alignment) ==
    LET bonus == entity.task_vector.valid # 0 /\ AboveThreshold(alignment)
        ruled == At(r.pool, i)
        fitness == ruled.fitness_score + (IF bonus THEN ALIGN_BONUS ELSE 0)
        marked == [ruled EXCEPT
                      !.fitness_score = fitness,
                      !.marked_for_gc =
                          IF MarksForGc(ruled.age, fitness) THEN 1 ELSE @]
    IN  [hs |-> r.hs,
         pool |-> Put(r.pool, i, marked),
         count |-> r.count,
         uid |-> r.uid,
         next_active |-> Put(st.next_active, i,
            CASE rule = "activate" -> 1 [] rule = "sleep" -> 0
              [] OTHER -> entity.is_active),
         next_state |-> Put(st.next_state, i,
            CASE rule = "activate" -> VecTraitActive
              [] rule = "sleep" -> VecTraitDormant
              [] OTHER -> entity.state),
         next_domain |-> Put(st.next_domain, i,
            CASE rule = "activate" -> "reactor" [] rule = "sleep" -> "sleeper"
              [] OTHER -> entity.domain_name),
         next_task_vector |-> Put(st.next_task_vector, i, entity.task_vector),
         next_path_id |-> Put(st.next_path_id, i, entity.path_id),
         next_task_alignment |-> Put(st.next_task_alignment, i, alignment),
         written |-> st.written \cup {i},
         evals |-> Append(st.evals,
            [i |-> i, prev_idx |-> nb.prev_idx, next_idx |-> nb.next_idx,
             neighbor_active |-> nb.neighbor_active, rule |-> rule,
             count_before |-> st.count, count_after |-> r.count,
             spawned |-> r.spawned, tick |-> r.hs.global_timestamp,
             bonus |-> bonus, before |-> entity, after |-> marked,
             child |-> r.child])]

EvalRule(st, i, entity, nb, rule) ==
    EvalScore(st, i, entity, nb, rule,
              ApplyRule(st, i, [entity EXCEPT !.age = @ + 1], rule),
              IF entity.task_vector.valid # 0
              THEN CosineSimilarity(entity.state, entity.task_vector)
              ELSE entity.task_alignment)

EvalNeighbors(st, i, entity, nb) ==
    EvalRule(st, i, entity, nb,
             RuleOf(entity.is_active, nb.neighbor_active, st.count))

\* one iteration of the evaluation loop (lines 367-465) for index i
\* st: the store, the arena, the count, the next_* buffers and the history
EvalStep(st, i) ==
    EvalNeighbors(st, i, At(st.pool, i), Neighbors(st.pool, st.count, i))

\* a mutant of EvalLoop: the bound is read once, before the first iteration
RECURSIVE EvalBelow(_, _, _)
EvalBelow(st, i, bound) ==
    IF i >= bound THEN st ELSE EvalBelow(EvalStep(st, i), i + 1, bound)

eval_loop_bound_read_once(st, i) == EvalBelow(st, i, st.count)

\* a mutant of EvalLoop: the index stays on an entity that has just spawned
RECURSIVE eval_loop_repeats_parent(_, _)
RepeatAfterSpawn(st, evaluated, i) ==
    eval_loop_repeats_parent(evaluated,
                             IF evaluated.count > st.count THEN i ELSE i + 1)

eval_loop_repeats_parent(st, i) ==
    IF i >= st.count THEN st ELSE RepeatAfterSpawn(st, EvalStep(st, i), i)

\* for (int i = 0; i < active_entity_count; i++): the bound is re-read each time
RECURSIVE EvalLoop(_, _)
EvalLoop(st, i) ==
    IF i >= st.count THEN st ELSE EvalLoop(EvalStep(st, i), i + 1)

\* what an entry of a next_* array that was never written may hold
Junk ==
    {[state |-> ZeroVector, domain_name |-> "", task_vector |-> ZeroVector,
      path_id |-> 0, task_alignment |-> AlignmentZero],
     [state |-> VecTraitActive, domain_name |-> "junk", task_vector |-> VecNetworkPath,
      path_id |-> 1, task_alignment |-> [num |-> 1, den2 |-> 1]]}

\* a mutant of ApplyPhase: the path id is cleared instead of copied back
apply_clears_path(st, junk) ==
    [k \in 1 .. MAX_ENTITIES |->
        IF k - 1 < st.count
        THEN [st.pool[k] EXCEPT
                !.is_active = st.next_active[k],
                !.state = st.next_state[k],
                !.domain_name = st.next_domain[k],
                !.task_vector = st.next_task_vector[k],
                !.path_id = 0,
                !.task_alignment = st.next_task_alignment[k]]
        ELSE st.pool[k]] \o <<>>

\* lines 468-476; the next_* arrays are locals without initializer (lines
\* 355-359), so an entry the evaluation did not write holds junk
ApplyPhase(st, junk) ==
    [k \in 1 .. MAX_ENTITIES |->
        IF k - 1 < st.count
        THEN [st.pool[k] EXCEPT
                !.is_active = st.next_active[k],
                !.state = IF k - 1 \in st.written
                          THEN st.next_state[k] ELSE junk.state,
                !.domain_name = IF k - 1 \in st.written
                                THEN st.next_domain[k] ELSE junk.domain_name,
                !.task_vector = IF k - 1 \in st.written
                                THEN st.next_task_vector[k] ELSE junk.task_vector,
                !.path_id = IF k - 1 \in st.written
                            THEN st.next_path_id[k] ELSE junk.path_id,
                !.task_alignment = IF k - 1 \in st.written
                                   THEN st.next_task_alignment[k]
                                   ELSE junk.task_alignment]
        ELSE st.pool[k]] \o <<>>

\* a mutant of Compact: the pass that leaves the arena as it is
compact_nothing(pool, count, i, write_index) == [pool |-> pool, count |-> count]

\* a mutant of Compact: the count drops and no entity moves
compact_without_moving(pool, count, i, write_index) ==
    [pool |-> pool,
     count |-> Cardinality({j \in 0 .. count - 1 : At(pool, j).marked_for_gc = 0})]

\* lines 479-492: the compacting pass from read index i, write index w
RECURSIVE Compact(_, _, _, _)
Compact(pool, count, i, write_index) ==
    IF i >= count THEN [pool |-> pool, count |-> write_index]
    ELSE IF At(pool, i).marked_for_gc = 0
         THEN Compact(IF write_index # i
                      THEN Put(pool, write_index, At(pool, i)) ELSE pool,
                      count, i + 1, write_index + 1)
         ELSE Compact(pool, count, i + 1, write_index)

\* a mutant of AfterCollection: the call advances the tick counter
after_collection_ticks(st, applied, gc) ==
    [hs |-> [st.hs EXCEPT !.global_timestamp = @ + 1],
     pool |-> gc.pool, count |-> gc.count, uid |-> st.uid,
     evals |-> st.evals, written |-> st.written,
     applied |-> applied, applied_count |-> st.count,
     collected |-> {At(applied, i).uid : i \in
                      {j \in 0 .. st.count - 1 : At(applied, j).marked_for_gc # 0}}]

\* what update_entities leaves and, as history, the evaluations, the arena
\* after the apply phase and the uids of the entities collected
AfterCollection(st, applied, gc) ==
    [hs |-> st.hs, pool |-> gc.pool, count |-> gc.count, uid |-> st.uid,
     evals |-> st.evals, written |-> st.written,
     applied |-> applied, applied_count |-> st.count,
     collected |-> {At(applied, i).uid : i \in
                      {j \in 0 .. st.count - 1 : At(applied, j).marked_for_gc # 0}}]

AfterApply(st, applied) == AfterCollection(st, applied, Compact(applied, st.count, 0, 0))

\* the outcomes of the apply phase and the collection, one for each junk
AfterEvaluation(st) == {AfterApply(st, ApplyPhase(st, junk)) : junk \in Junk}

\* the outcomes of one call; written: the indices of the next_* arrays that
\* the evaluation has assigned
update_entities(hs, pool, count, uid) ==
    AfterEvaluation(EvalLoop(
        [hs |-> hs, pool |-> pool, count |-> count, uid |-> uid,
         next_active |-> Filled(0, MAX_ENTITIES),
         next_state |-> Filled(ZeroVector, MAX_ENTITIES),
         next_domain |-> Filled("", MAX_ENTITIES),
         next_task_vector |-> Filled(ZeroVector, MAX_ENTITIES),
         next_path_id |-> Filled(0, MAX_ENTITIES),
         next_task_alignment |-> Filled(AlignmentZero, MAX_ENTITIES),
         written |-> {},
         evals |-> <<>>], 0))

----------------------------------------------------------------------------
(* A driver of the kernel: the calls kmain makes, in any order, on an arena   *)
(* that the caller has populated.  entity_pool and active_entity_count are    *)
(* globals which callers write directly (kmain does, lines 148-150), so the   *)
(* initial arenas are the populations a caller can arrange: entities as       *)
(* initialize_emergent_entities creates them, some put to sleep, the oldest   *)
(* ones aged to the collection threshold (aged populations are awake: from  *)
(* an awake population every later population is awake), the arena with one *)
(* free slot and the full arena.                                            *)

MaxOps == 2
MaxPopulation == 6

\* a supply of fresh inputs to encode, the n-th being the three bytes
\* n % 256, n / 256, tag
FreshBytes(n, tag) == <<n % 256, n \div 256, tag>>

\* the vectors of the first fresh inputs, computed once
FreshTable ==
    [n \in 0 .. 4 * MAX_MEMORY_ENTRIES - 1 |->
        create_holographic_vector(FreshBytes(n, 1))]

FreshVector(n) ==
    IF n \in DOMAIN FreshTable THEN FreshTable[n]
    ELSE create_holographic_vector(FreshBytes(n, 1))

\* n calls encode(&pattern, &pattern), each with a fresh pattern
RECURSIVE EncodeFresh(_, _)
EncodeFresh(hs, n) ==
    IF n = 0 \/ hs.memory_count > MAX_MEMORY_ENTRIES THEN hs
    ELSE IF n = 1
    THEN encode_holographic_memory(hs, FreshVector(Len(hs.inserted)),
                                   FreshVector(Len(hs.inserted)))
    ELSE EncodeFresh(EncodeFresh(hs, n \div 2), n - n \div 2)

\* after initialize_holographic_memory(); load_initial_genome_vocabulary()
BootedStore == load_initial_genome_vocabulary(initialize_holographic_memory(ZeroHoloSystem))

\* fitness scores of the entities that start at the age GC_AGE (the oldest
\* entities are the first ones, as appending and compaction keep them)
FixtureOld ==
    {<<>>, <<49>>, <<50, 39>>, <<40, 39>>, Filled(SPAWN_BONUS, MAX_ENTITIES - 1)}

FixtureEntity(i, dormant, old) ==
    LET fresh == InitializedEntity(ZeroEntity, i,
                    retrieve_holographic_memory(BootedStore, VecGenomeRule.hash_signature),
                    i + 1)
    IN  [fresh EXCEPT
            !.is_active = IF i \in dormant THEN 0 ELSE 1,
            !.age = IF i < Len(old) THEN GC_AGE ELSE 0,
            !.fitness_score = IF i < Len(old) THEN old[i + 1] ELSE 0]

FixturePool(n, dormant, old) ==
    [k \in 1 .. MAX_ENTITIES |->
        IF k <= n THEN FixtureEntity(k - 1, dormant, old) ELSE ZeroEntity] \o <<>>

\* the task strings a caller assigns (kmain: "network_io_path")
TaskStrings == {StrNetworkPath, StrTraitDormant}
PATH_ID == 161      \* 0xA1

\* kmain's loop before kmain has reached it (line 160 not yet executed)
LoopNotEntered == [pc |-> "boot", last_update |-> 0, updates |-> 0, renders |-> 0]

Init ==
    /\ holo_system = BootedStore
    /\ \E n \in (0 .. MaxPopulation) \cup {MAX_ENTITIES - 1, MAX_ENTITIES},
          old \in FixtureOld :
          /\ Len(old) <= n
          /\ \E dormant \in IF n <= MaxPopulation THEN SUBSET (0 .. n - 1) ELSE {{}} :
                /\ old # <<>> => dormant = {}
                /\ entity_pool = FixturePool(n, dormant, old)
          /\ active_entity_count = n
          /\ next_uid = n
    /\ collected = {}
    /\ last = [op |-> "boot"]
    /\ calls = <<>>
    /\ loop = LoopNotEntered

ArenaUntouched ==
    UNCHANGED <<entity_pool, active_entity_count, next_uid, collected, loop>>

\* encode_holographic_memory called with fresh patterns as many times as
\* evict every record that was in the store
KernelEncode ==
    /\ Len(calls) < MaxOps
    /\ holo_system' = EncodeFresh(holo_system, MAX_MEMORY_ENTRIES)
    /\ last' = [op |-> "encode"]
    /\ calls' = Append(calls, "encode")
    /\ ArenaUntouched

\* holo_system.global_timestamp++ (line 169).  kmain calls update_entities
\* once in 500001 ticks, a number coprime to 512, so every residue of the
\* tick modulo 512 meets an update; the driver reaches neighbouring residues
\* with single ticks.
KernelTick ==
    /\ Len(calls) < MaxOps
    /\ holo_system' = [holo_system EXCEPT !.global_timestamp = @ + 1]
    /\ last' = [op |-> "tick"]
    /\ calls' = Append(calls, "tick")
    /\ ArenaUntouched

\* lines 147-154
AssignTasks(pool, count, path_vector) ==
    [k \in 1 .. MAX_ENTITIES |->
        IF k - 1 < count /\ k - 1 < 2
        THEN [pool[k] EXCEPT !.task_vector = path_vector, !.path_id = PATH_ID]
        ELSE pool[k]] \o <<>>

KernelAssignTasks ==
    /\ Len(calls) < MaxOps
    /\ \E str \in TaskStrings :
          entity_pool' = AssignTasks(entity_pool, active_entity_count,
                                     create_holographic_vector(str))
    /\ last' = [op |-> "assign"]
    /\ calls' = Append(calls, "assign")
    /\ UNCHANGED <<holo_system, active_entity_count, next_uid, collected, loop>>

KernelInitialize ==
    /\ Len(calls) < MaxOps
    /\ \E r \in {initialize_emergent_entities(holo_system, entity_pool,
                                               active_entity_count, next_uid)} :
           /\ holo_system' = r.hs
           /\ entity_pool' = r.pool
           /\ active_entity_count' = r.count
           /\ next_uid' = r.uid
           /\ last' = [op |-> "initialize", pre_count |-> active_entity_count]
    /\ calls' = Append(calls, "initialize")
    /\ UNCHANGED <<collected, loop>>

KernelSpawn ==
    /\ Len(calls) < MaxOps
    /\ \E r \in {spawn_entity(holo_system, entity_pool, active_entity_count,
                               next_uid)} :
           /\ holo_system' = r.hs
           /\ entity_pool' = r.pool
           /\ active_entity_count' = r.count
           /\ next_uid' = r.uid
           /\ last' = [op |-> "spawn", ret |-> r.ret,
                       pre_count |-> active_entity_count,
                       pre_pool |-> entity_pool]
    /\ calls' = Append(calls, "spawn")
    /\ UNCHANGED <<collected, loop>>

\* update_entities() on the globals; last: the history of the call
UpdateCall ==
    \E r \in update_entities(holo_system, entity_pool, active_entity_count,
                              next_uid) :
        /\ holo_system' = r.hs
        /\ entity_pool' = r.pool
        /\ active_entity_count' = r.count
        /\ next_uid' = r.uid
        /\ collected' = collected \cup r.collected
        /\ last' = [op |-> "update",
                    pre_count |-> active_entity_count,
                    pre_pool |-> entity_pool,
                    pre_tick |-> holo_system.global_timestamp,
                    evals |-> r.evals,
                    written |-> r.written,
                    applied |-> r.applied,
                    applied_count |-> r.applied_count]

KernelUpdate ==
    /\ Len(calls) < MaxOps
    /\ UpdateCall
    /\ calls' = Append(calls, "update")
    /\ UNCHANGED loop

Next ==
    \/ KernelEncode
    \/ KernelTick
    \/ KernelAssignTasks
    \/ KernelInitialize
    \/ KernelSpawn
    \/ KernelUpdate

Spec == Init /\ [][Next]_vars

----------------------------------------------------------------------------
(* kmain's loop (lines 160-171), a single thread:                           *)
(*   check    line 164, the test; if it holds, line 165, update_entities()  *)
(*   render   line 166, render_entities_to_vga()                            *)
(*   baseline line 167, last_update = holo_system.global_timestamp          *)
(*   tick     lines 169-170, global_timestamp++ and hlt                     *)
(* The iterations in which the test fails do nothing but lines 169-170; a   *)
(* run of them is one step, which ends either at the last tick for which    *)
(* the test still fails or at the first for which it holds.  The loop is    *)
(* entered after the boot sequence, and also with the stores and arenas a   *)
(* kernel can hold later in its run; it is followed for MaxRounds updates.  *)

MaxRounds == 2
UPDATE_INTERVAL == 500000

\* a mutant of Due: the update is invoked as soon as the interval is reached
due_at_interval(timestamp, last_update) == timestamp - last_update >= UPDATE_INTERVAL

\* line 164: holo_system.global_timestamp - last_update > update_interval
\* (both uint32_t; the runs followed here stay below 2^31 ticks, where the
\* unsigned difference is the difference)
Due(timestamp, last_update) == timestamp - last_update > UPDATE_INTERVAL

\* lines 141-154: the state in which kmain enters the loop
BootedKernel ==
    LET r == initialize_emergent_entities(BootedStore, ZeroPool, 0, 0)
    IN  [hs |-> r.hs,
         pool |-> AssignTasks(r.pool, r.count, VecNetworkPath),
         count |-> r.count, uid |-> r.uid]

\* stores and arenas of a kernel later in its run: the store with every
\* booted record evicted or not, an arena as in the kernel driver
LateKernels ==
    {[hs |-> hs, pool |-> FixturePool(f.n, {}, f.old), count |-> f.n, uid |-> f.n] :
        hs \in {BootedStore, EncodeFresh(BootedStore, MAX_MEMORY_ENTRIES)},
        f \in {[n |-> 0, old |-> <<>>], [n |-> 1, old |-> <<>>],
                [n |-> INITIAL_ENTITIES, old |-> <<50, 39>>],
                [n |-> MAX_ENTITIES - 1, old |-> Filled(SPAWN_BONUS, MAX_ENTITIES - 1)],
                [n |-> MAX_ENTITIES, old |-> <<49>>]}}

LoopInit ==
    /\ \E k \in {BootedKernel} \cup LateKernels :
          /\ holo_system = k.hs
          /\ entity_pool = k.pool
          /\ active_entity_count = k.count
          /\ next_uid = k.uid
          /\ \E last_update \in {0, k.hs.global_timestamp} :
                /\ k = BootedKernel => last_update = 0
                /\ loop = [pc |-> "check", last_update |-> last_update,
                           updates |-> 0, renders |-> 0]
    /\ collected = {}
    /\ last = [op |-> "boot"]
    /\ calls = <<>>

\* how many ticks from now the test of line 164 holds for the first time
TicksUntilDue ==
    UPDATE_INTERVAL + 1 - (holo_system.global_timestamp - loop.last_update)

\* lines 164, 169-170, repeated while the test fails
LoopIdle ==
    /\ loop.pc = "check"
    /\ loop.updates < MaxRounds
    /\ ~Due(holo_system.global_timestamp, loop.last_update)
    /\ \E n \in {TicksUntilDue - 1, TicksUntilDue} :
          /\ n >= 1
          /\ holo_system' = [holo_system EXCEPT !.global_timestamp = @ + n]
    /\ last' = [op |-> "tick"]
    /\ UNCHANGED <<entity_pool, active_entity_count, next_uid, collected,
                   calls, loop>>

\* lines 164-165
LoopUpdate ==
    /\ loop.pc = "check"
    /\ loop.updates < MaxRounds
    /\ Due(holo_system.global_timestamp, loop.last_update)
    /\ UpdateCall
    /\ loop' = [loop EXCEPT !.pc = "render", !.updates = @ + 1]
    /\ UNCHANGED calls

\* line 166: render_entities_to_vga() reads the arena and writes the screen
LoopRender ==
    /\ loop.pc = "render"
    /\ loop' = [loop EXCEPT !.pc = "baseline", !.renders = @ + 1]
    /\ UNCHANGED <<holo_system, entity_pool, active_entity_count, next_uid,
                   collected, last, calls>>

\* line 167
LoopBaseline ==
    /\ loop.pc = "baseline"
    /\ loop' = [loop EXCEPT !.pc = "tick",
                            !.last_update = holo_system.global_timestamp]
    /\ UNCHANGED <<holo_system, entity_pool, active_entity_count, next_uid,
                   collected, last, calls>>

\* lines 169-170, after an update
LoopTick ==
    /\ loop.pc = "tick"
    /\ holo_system' = [holo_system EXCEPT !.global_timestamp = @ + 1]
    /\ loop' = [loop EXCEPT !.pc = "check"]
    /\ last' = [op |-> "tick"]
    /\ UNCHANGED <<entity_pool, active_entity_count, next_uid, collected, calls>>

LoopNext ==
    \/ LoopIdle
    \/ LoopUpdate
    \/ LoopRender
    \/ LoopBaseline
    \/ LoopTick

\* what LoopUpdate does to the position of the thread
LoopPastUpdate ==
    /\ loop.pc = "check"
    /\ loop.updates < MaxRounds
    /\ Due(holo_system.global_timestamp, loop.last_update)
    /\ loop' = [loop EXCEPT !.pc = "render", !.updates = @ + 1]

\* the thread runs on: the halt of line 170 ends with the next interrupt,
\* render_entities_to_vga() returns, and so does update_entities(), all of
\* whose loops are bounded (lines 367, 441, 468, 480)
SpecLoop ==
    /\ LoopInit
    /\ [][LoopNext]_vars
    /\ WF_vars(LoopIdle)
    /\ WF_loop(LoopPastUpdate)
    /\ WF_vars(LoopRender)
    /\ WF_vars(LoopBaseline)
    /\ WF_vars(LoopTick)

----------------------------------------------------------------------------
(* kmain from its entry (lines 141-171): the boot sequence, one call after  *)
(* the other, and then the loop.  The globals start zeroed (lines 77-78);   *)
(* the run is a single thread and has no input, so it is one behaviour, up  *)
(* to where a run of idle iterations is cut.                                *)

MaxBootRounds == 1003

BootInit ==
    /\ holo_system = ZeroHoloSystem
    /\ entity_pool = ZeroPool
    /\ active_entity_count = 0
    /\ next_uid = 0
    /\ collected = {}
    /\ last = [op |-> "boot"]
    /\ calls = <<>>
    /\ loop = [pc |-> "reset", last_update |-> 0, updates |-> 0, renders |-> 0]

\* line 141
BootReset ==
    /\ loop.pc = "reset"
    /\ holo_system' = initialize_holographic_memory(holo_system)
    /\ loop' = [loop EXCEPT !.pc = "vocabulary"]
    /\ last' = [op |-> "reset"]
    /\ UNCHANGED <<entity_pool, active_entity_count, next_uid, collected, calls>>

\* line 142
BootLoadVocabulary ==
    /\ loop.pc = "vocabulary"
    /\ holo_system' = load_initial_genome_vocabulary(holo_system)
    /\ loop' = [loop EXCEPT !.pc = "initialize"]
    /\ last' = [op |-> "vocabulary"]
    /\ UNCHANGED <<entity_pool, active_entity_count, next_uid, collected, calls>>

\* line 143
BootInitialize ==
    /\ loop.pc = "initialize"
    /\ \E r \in {initialize_emergent_entities(holo_system, entity_pool,
                                               active_entity_count, next_uid)} :
           /\ holo_system' = r.hs
           /\ entity_pool' = r.pool
           /\ active_entity_count' = r.count
           /\ next_uid' = r.uid
           /\ last' = [op |-> "initialize", pre_count |-> active_entity_count]
    /\ loop' = [loop EXCEPT !.pc = "assign"]
    /\ UNCHANGED <<collected, calls>>

\* lines 147-161
BootAssignTasks ==
    /\ loop.pc = "assign"
    /\ entity_pool' = AssignTasks(entity_pool, active_entity_count, VecNetworkPath)
    /\ loop' = [loop EXCEPT !.pc = "check", !.last_update = 0]
    /\ last' = [op |-> "assign"]
    /\ UNCHANGED <<holo_system, active_entity_count, next_uid, collected, calls>>

\* lines 164, 169-170, repeated while the test fails
BootIdle ==
    /\ loop.pc = "check"
    /\ loop.updates < MaxBootRounds
    /\ ~Due(holo_system.global_timestamp, loop.last_update)
    /\ \E n \in {TicksUntilDue - 1, TicksUntilDue} :
          /\ n >= 1
          /\ holo_system' = [holo_system EXCEPT !.global_timestamp = @ + n]
    /\ last' = [op |-> "tick"]
    /\ UNCHANGED <<entity_pool, active_entity_count, next_uid, collected,
                   calls, loop>>

\* lines 164-165
BootUpdate ==
    /\ loop.pc = "check"
    /\ loop.updates < MaxBootRounds
    /\ Due(holo_system.global_timestamp, loop.last_update)
    /\ UpdateCall
    /\ loop' = [loop EXCEPT !.pc = "render", !.updates = @ + 1]
    /\ UNCHANGED calls

BootNext ==
    \/ BootReset
    \/ BootLoadVocabulary
    \/ BootInitialize
    \/ BootAssignTasks
    \/ BootIdle
    \/ BootUpdate
    \/ LoopRender
    \/ LoopBaseline
    \/ LoopTick

SpecBoot == BootInit /\ [][BootNext]_vars

----------------------------------------------------------------------------
(* A driver of the pattern store alone *)

MaxStoreOps == 4

\* the keys the driver encodes and looks up, and the lengths of its runs
TestKeys == {<<65, 0>>, <<66, 0>>}            \* "A", "B"
RunLengths == {1, MAX_MEMORY_ENTRIES - 2}

\* the signatures the driver looks up
ProbeSignatures(hs) ==
    {create_holographic_vector(k).hash_signature : k \in TestKeys}
    \cup {hs.inserted[j].input_pattern.hash_signature :
             j \in {1, Len(hs.inserted)} \cap DOMAIN hs.inserted}

StoreInit ==
    /\ holo_system = ZeroHoloSystem
    /\ entity_pool = ZeroPool
    /\ active_entity_count = 0
    /\ next_uid = 0
    /\ collected = {}
    /\ last = [op |-> "boot"]
    /\ calls = <<>>
    /\ loop = LoopNotEntered

StoreReset ==
    /\ Len(calls) < MaxStoreOps
    /\ holo_system' = initialize_holographic_memory(holo_system)
    /\ last' = [op |-> "reset"]
    /\ calls' = Append(calls, "reset")
    /\ ArenaUntouched

StoreLoadVocabulary ==
    /\ Len(calls) < MaxStoreOps
    /\ holo_system' = load_initial_genome_vocabulary(holo_system)
    /\ last' = [op |-> "vocabulary"]
    /\ calls' = Append(calls, "vocabulary")
    /\ ArenaUntouched

StoreEncodeRun ==
    /\ Len(calls) < MaxStoreOps
    /\ \E n \in RunLengths : holo_system' = EncodeFresh(holo_system, n)
    /\ last' = [op |-> "encode"]
    /\ calls' = Append(calls, "encode")
    /\ ArenaUntouched

\* encode(&input, &output) with a key that may already be stored and an
\* output that identifies the call
StoreEncode ==
    /\ Len(calls) < MaxStoreOps
    /\ \E key \in TestKeys :
          holo_system' = encode_holographic_memory(holo_system,
              create_holographic_vector(key),
              create_holographic_vector(FreshBytes(Len(holo_system.inserted), 2)))
    /\ last' = [op |-> "encode"]
    /\ calls' = Append(calls, "encode")
    /\ ArenaUntouched

StoreRetrieve ==
    /\ Len(calls) < MaxStoreOps
    /\ \E hash \in ProbeSignatures(holo_system) :
          last' = [op |-> "retrieve", hash |-> hash,
                   ret |-> retrieve_holographic_memory(holo_system, hash)]
    /\ calls' = Append(calls, "retrieve")
    /\ UNCHANGED holo_system
    /\ ArenaUntouched

StoreNext ==
    \/ StoreReset
    \/ StoreLoadVocabulary
    \/ StoreEncodeRun
    \/ StoreEncode
    \/ StoreRetrieve

SpecStore == StoreInit /\ [][StoreNext]_vars

----------------------------------------------------------------------------
(* A driver of create_holographic_vector alone: an input byte sequence is   *)
(* chosen, then the vector of it is created.                                *)

MaxInputLen == 4

\* the bytes the inputs are made of
InputBytes == {0, 65, 255}

\* the byte sequences of length n
RECURSIVE InputsOfLen(_)
InputsOfLen(n) ==
    IF n = 0 THEN {<<>>}
    ELSE {Append(s, b) : s \in InputsOfLen(n - 1), b \in InputBytes}

CodecInputs ==
    {StrTraitDormant, StrTraitActive, StrGenomeRule, StrNetworkPath}
    \cup UNION {InputsOfLen(n) : n \in 0 .. MaxInputLen}

CodecInit ==
    /\ holo_system = ZeroHoloSystem
    /\ entity_pool = ZeroPool
    /\ active_entity_count = 0
    /\ next_uid = 0
    /\ collected = {}
    /\ \E input \in CodecInputs : last = [op |-> "input", input |-> input]
    /\ calls = <<>>
    /\ loop = LoopNotEntered

\* lines 192-200: vector.data, each component as <<sign bit, numerator>>,
\* from the values the local `seed` takes
VectorData(seeds) ==
    [d \in 0 .. HOLOGRAPHIC_DIMENSIONS - 1 |->
        <<0, IF IsActiveDim(seeds[d + 1]) THEN Numerator(seeds[d + 1])
             ELSE U32(0, 0)>>]

\* vector = create_holographic_vector(input, size); seeds: the value of the
\* local `seed` in each iteration of the loop of lines 192-200
CodecCreate ==
    /\ last.op = "input"
    /\ \E vector \in {create_holographic_vector(last.input)} :
          \E seeds \in {Seeds(vector.hash_signature)} :
              last' = [op |-> "create", input |-> last.input, vector |-> vector,
                       seeds |-> seeds, data |-> VectorData(seeds)]
    /\ calls' = Append(calls, "create")
    /\ UNCHANGED holo_system
    /\ ArenaUntouched

CodecNext == CodecCreate

SpecCodec == CodecInit /\ [][CodecNext]_vars

----------------------------------------------------------------------------
(* Properties of the pattern store *)

Inserted == holo_system.inserted
\* how many of the inserted records the store can still hold
Kept == Min(Len(Inserted), MAX_MEMORY_ENTRIES)
\* the position in Inserted of the record that should sit in slot i
InsertedAt(i) == Inserted[Len(Inserted) - Kept + i + 1]

DistinctSignatures ==
    Cardinality({Inserted[j].input_pattern.hash_signature : j \in DOMAIN Inserted})
        = Len(Inserted)

\* the output vector a returned pointer designates
Deref(ptr) == At(holo_system.memory_pool, ptr.idx).output_pattern

\* C2: the store holds exactly the min(k, 128) most recent insertions, in
\* insertion order; and once more than 128 records with pairwise distinct
\* signatures were inserted, the first signature is not found and the last is
\* found with its own output vector.
C2_StoreKeepsMostRecent ==
    /\ holo_system.memory_count = Kept
    /\ \A i \in 0 .. Kept - 1 :
          /\ At(holo_system.memory_pool, i).input_pattern = InsertedAt(i).input_pattern
          /\ At(holo_system.memory_pool, i).output_pattern = InsertedAt(i).output_pattern
    /\ (Len(Inserted) > MAX_MEMORY_ENTRIES /\ DistinctSignatures) =>
          /\ retrieve_holographic_memory(holo_system,
                Inserted[1].input_pattern.hash_signature) = NULL
          /\ LET newest == Inserted[Len(Inserted)]
                 ret == retrieve_holographic_memory(holo_system,
                            newest.input_pattern.hash_signature)
             IN  ret # NULL /\ Deref(ret) = newest.output_pattern

\* capacity + 1 distinct records have been inserted since the reset
C2_Witness ==
    /\ Len(Inserted) = MAX_MEMORY_ENTRIES + 1
    /\ DistinctSignatures
    /\ holo_system.memory_count = MAX_MEMORY_ENTRIES

\* the positions in Inserted of the records still stored whose input has
\* the given signature
StoredMatches(hash) ==
    {j \in Len(Inserted) - Kept + 1 .. Len(Inserted) :
        Inserted[j].input_pattern.hash_signature = hash}

Newest(S) == CHOOSE j \in S : \A k \in S : k <= j

\* C3: retrieve returns the output vector of the most recently inserted
\* stored record with that input signature, and not-found exactly when no
\* stored record has it.
C3_RetrieveNewestMatch ==
    last.op = "retrieve" =>
        LET S == StoredMatches(last.hash)
        IN  /\ (last.ret = NULL) <=> (S = {})
            /\ S # {} => Deref(last.ret) = Inserted[Newest(S)].output_pattern

\* a lookup found a signature that two stored records with different
\* outputs share
C3_Witness ==
    /\ last.op = "retrieve"
    /\ last.ret # NULL
    /\ \E j, k \in StoredMatches(last.hash) :
          j < k /\ Inserted[j].output_pattern # Inserted[k].output_pattern

\* a lookup of a missing signature in a non-empty store, and one in the
\* empty store
C3_WitnessMiss ==
    /\ last.op = "retrieve"
    /\ last.ret = NULL
    /\ holo_system.memory_count > 0

----------------------------------------------------------------------------
(* Properties of the arena and of update_entities.  After an update, `last`  *)
(* holds the arena and the count the call started from (pre_pool,           *)
(* pre_count), the record of each evaluation in order (evals: the indices   *)
(* read, the rule chosen, the entity before and after, the child), and the  *)
(* arena after the apply phase, before compaction (applied).                *)

Updated == last.op = "update"

Slots == 0 .. active_entity_count - 1

\* left and right ring neighbours of i among n entities
RingLeft(i, n) == (i + n - 1) % n
RingRight(i, n) == (i + 1) % n

\* how many of the two ring neighbours of i were active when the call began
RingActive(i) ==
    LET n == last.pre_count
        flag(j) == IF At(last.pre_pool, j).is_active # 0 THEN 1 ELSE 0
    IN  flag(RingLeft(i, n)) + flag(RingRight(i, n))

\* C1: in an update, every entity i live at the start reads the entities at
\* (i-1) mod n and (i+1) mod n, n the count at the start, sees their flags
\* of the start of the call, and gets the rule those flags and its own
\* determine, whatever was done earlier in the call.
C1_RuleFromPreCallRing ==
    Updated =>
        \A i \in 0 .. last.pre_count - 1 :
            LET e == last.evals[i + 1]
            IN  /\ e.prev_idx = RingLeft(i, last.pre_count)
                /\ e.next_idx = RingRight(i, last.pre_count)
                /\ e.neighbor_active = RingActive(i)
                /\ e.rule = RuleOf(At(last.pre_pool, i).is_active, RingActive(i),
                                   e.count_before)

\* an entity that was created and has not been collected
Live(entity) == entity.uid \in 1 .. next_uid /\ entity.uid \notin collected

\* C4: the count stays within 0 .. 32, every slot below it holds a live
\* entity, no two of them the same one, and when an update has returned none
\* of them is marked for collection.
C4_ArenaPrefixLive ==
    /\ active_entity_count \in 0 .. MAX_ENTITIES
    /\ \A i \in Slots : Live(At(entity_pool, i))
    /\ \A i, j \in Slots :
          i # j => At(entity_pool, i).uid # At(entity_pool, j).uid
    /\ Updated => \A i \in Slots : At(entity_pool, i).marked_for_gc = 0

\* an update collected some of the entities, not all, and closed the gaps
C4_Witness ==
    /\ Updated
    /\ last.applied_count > active_entity_count
    /\ active_entity_count > 0
    /\ \E i \in 0 .. last.applied_count - 2 :
          /\ At(last.applied, i).marked_for_gc # 0
          /\ At(last.applied, i + 1).marked_for_gc = 0

\* the driver has called nothing but update_entities
OnlyUpdates == \A k \in DOMAIN calls : calls[k] = "update"

\* C5: after any sequence of updates, any two distinct live entities have
\* different ids, and an update leaves the id of every entity that survives
\* it as it was.
C5_IdsUniqueAndStable ==
    OnlyUpdates =>
        /\ \A i, j \in Slots :
              i # j => At(entity_pool, i).id # At(entity_pool, j).id
        /\ Updated =>
              \A i \in 0 .. last.pre_count - 1, j \in Slots :
                  At(last.pre_pool, i).uid = At(entity_pool, j).uid
                      => At(last.pre_pool, i).id = At(entity_pool, j).id

\* a genome pointer that designates a record the store holds now, whose
\* output vector is the vector of "GENOME_SIMPLE_RULE_1"
DesignatesGenome(ptr) ==
    /\ ptr.kind = "pool"
    /\ ptr.idx < holo_system.memory_count
    /\ Deref(ptr) = VecGenomeRule

\* C6: the genome pointer of every live entity designates a record the store
\* holds now whose output vector is the canonical genome vector.
C6_GenomeReferenceValid ==
    \A i \in Slots : DesignatesGenome(At(entity_pool, i).genome)

\* C7: in an update, an active entity that finds both neighbours active
\* spawns exactly when the count is below 32 at the moment it is evaluated.
C7_SpawnWheneverRoom ==
    Updated =>
        \A k \in DOMAIN last.evals :
            LET e == last.evals[k]
            IN  (e.before.is_active # 0 /\ e.neighbor_active = 2)
                    => (e.spawned <=> e.count_before < MAX_ENTITIES)

\* C8: after an update, an entity that was dormant with an active ring
\* neighbour is active, "reactor", with the active-trait vector, and one that
\* was active with no active ring neighbour is dormant, "sleeper", with the
\* dormant-trait vector; either has one interaction more, has not spawned and
\* has no spawn bonus.
C8_ActivateAndSleep ==
    Updated =>
        \A i \in 0 .. last.pre_count - 1 :
            LET pre == At(last.pre_pool, i)
                post == At(last.applied, i)
                e == last.evals[i + 1]
                once == /\ post.interaction_count = pre.interaction_count + 1
                        /\ ~e.spawned
                        /\ post.spawn_count = pre.spawn_count
                        /\ post.fitness_score = pre.fitness_score
                              + (IF e.bonus THEN ALIGN_BONUS ELSE 0)
            IN  /\ (pre.is_active = 0 /\ RingActive(i) >= 1) =>
                      /\ post.is_active = 1
                      /\ post.domain_name = "reactor"
                      /\ post.state = VecTraitActive
                      /\ once
                /\ (pre.is_active # 0 /\ RingActive(i) = 0) =>
                      /\ post.is_active = 0
                      /\ post.domain_name = "sleeper"
                      /\ post.state = VecTraitDormant
                      /\ once

Negated(c) == <<1 - c[1], c[2]>>

\* C10: for a child spawned in an update called at tick t by a parent that
\* was live when the call began, the child's state after the call differs
\* from the state the parent had before the call in dimension t mod 512 and
\* in no other, and there the child holds the negation of the parent's value.
C10_ChildDiffersAtTick ==
    Updated =>
        \A k \in 1 .. last.pre_count :
            LET e == last.evals[k]
                child == At(last.applied, e.count_before).state
                parent == At(last.pre_pool, e.i).state
                d == last.pre_tick % HOLOGRAPHIC_DIMENSIONS
            IN  e.spawned =>
                    /\ DifferingDimensions(child, parent) = {d}
                    /\ Component(child, d) = Negated(Component(parent, d))

\* the entity with this uid is in the arena now
InArena(uid) == \E j \in Slots : At(entity_pool, j).uid = uid

\* the fitness an evaluation leaves: the fitness before it and its bonuses
FitnessAfter(e) ==
    e.before.fitness_score + (IF e.spawned THEN SPAWN_BONUS ELSE 0)
                           + (IF e.bonus THEN ALIGN_BONUS ELSE 0)

\* C11: an update removes an entity exactly when its age after the call's
\* increment exceeds 1000 and its fitness after the call's spawn and
\* alignment bonuses is below 50; every entity that was in the arena when the
\* call began, and every child spawned in the call, is evaluated once.
C11_RemovedIffOldAndUnfit ==
    Updated =>
        /\ \A i \in 0 .. last.pre_count - 1 :
              last.evals[i + 1].before.uid = At(last.pre_pool, i).uid
        /\ \A k \in DOMAIN last.evals :
              LET e == last.evals[k]
              IN  /\ e.after.age = e.before.age + 1
                  /\ e.after.fitness_score = FitnessAfter(e)
                  /\ ~InArena(e.before.uid)
                        <=> (e.before.age + 1 > GC_AGE /\ FitnessAfter(e) < GC_FITNESS)

\* an update removed an entity of age 1001 and fitness 49 and kept one of
\* age 1001 and fitness 50
C11_Witness ==
    /\ Updated
    /\ \E k \in DOMAIN last.evals :
          /\ last.evals[k].after.age = GC_AGE + 1
          /\ last.evals[k].after.fitness_score = GC_FITNESS - 1
          /\ ~InArena(last.evals[k].before.uid)
    /\ \E k \in DOMAIN last.evals :
          /\ last.evals[k].after.age = GC_AGE + 1
          /\ last.evals[k].after.fitness_score = GC_FITNESS
          /\ InArena(last.evals[k].before.uid)

Unmarked(entity) == entity.marked_for_gc = 0

\* C12: the collection phase keeps exactly the unmarked entities of the arena
\* the apply phase left, in their relative order, in the slots below the new
\* count, which is their number; every field of a survivor is as it was
\* before the move.
C12_CompactionKeepsOrder ==
    Updated =>
        SubSeq(entity_pool, 1, active_entity_count)
            = SelectSeq(SubSeq(last.applied, 1, last.applied_count), Unmarked)

\* an update collected an entity that had a survivor on either side
C12_Witness ==
    /\ Updated
    /\ \E i \in 0 .. last.applied_count - 3 :
          /\ At(last.applied, i).marked_for_gc = 0
          /\ At(last.applied, i + 1).marked_for_gc # 0
          /\ At(last.applied, i + 2).marked_for_gc = 0
          /\ At(entity_pool, i + 1) = At(last.applied, i + 2)

\* C13: in an update that begins with one entity, that entity is read as
\* both of its neighbours; if it is active it counts two active neighbours,
\* the spawn rule fires and spawns, and it is still active after the apply
\* phase; if it is dormant it counts none, no rule fires, nothing is spawned
\* and it is dormant with the same state and label after the apply phase.
C13_SoleEntityOwnNeighbour ==
    (Updated /\ last.pre_count = 1) =>
        LET pre == At(last.pre_pool, 0)
            e == last.evals[1]
            post == At(last.applied, 0)
        IN  /\ e.i = 0 /\ e.prev_idx = 0 /\ e.next_idx = 0
            /\ pre.is_active # 0 =>
                  /\ e.neighbor_active = 2
                  /\ e.rule = "spawn" /\ e.spawned
                  /\ post.is_active = 1
                  /\ post.domain_name # "sleeper"
                  /\ post.spawn_count = pre.spawn_count + 1
            /\ pre.is_active = 0 =>
                  /\ e.neighbor_active = 0
                  /\ e.rule = "none" /\ ~e.spawned
                  /\ Len(last.evals) = 1
                  /\ last.applied_count = 1
                  /\ post.is_active = 0
                  /\ post.state = pre.state
                  /\ post.domain_name = pre.domain_name
                  /\ post.interaction_count = pre.interaction_count

\* an update that began with one active entity, which spawned
C13_Witness ==
    /\ Updated
    /\ last.pre_count = 1
    /\ At(last.pre_pool, 0).is_active = 1
    /\ last.evals[1].spawned
    /\ last.applied_count > 1

\* an update that began with one dormant entity
C13_WitnessDormant ==
    /\ Updated
    /\ last.pre_count = 1
    /\ At(last.pre_pool, 0).is_active = 0
    /\ active_entity_count = 1

\* the step is a call of update_entities, or a tick of the driving loop
UpdateStep == calls' = Append(calls, "update")
TickStep == calls' = Append(calls, "tick")

\* C14: an update that begins with no entity changes nothing: the count
\* stays 0 and no entity slot, no store record and not the tick counter is
\* modified; so the steps of the driving loop, updates and ticks, leave an
\* empty population empty.
C14_EmptyArenaUpdateNoOp ==
    [][active_entity_count = 0 =>
          /\ UpdateStep =>
                /\ active_entity_count' = 0
                /\ entity_pool' = entity_pool
                /\ holo_system' = holo_system
                /\ next_uid' = next_uid
                /\ collected' = collected
          /\ (UpdateStep \/ TickStep) => active_entity_count' = 0]_vars

\* an update collected the whole population and the next update began with
\* no entity
C14_Witness ==
    /\ calls = <<"update", "update">>
    /\ last.pre_count = 0
    /\ collected # {}
    /\ active_entity_count = 0

\* C15: in an update, the fitness of an evaluated entity grows by 10 if it
\* spawned and by 5 if the task alignment the call computed for it is above
\* 0.7 (and its task vector is valid), and by nothing else; the fitness of
\* every entity that is in the arena before and after the call has not
\* decreased, wherever compaction moved the entity.
C15_FitnessNeverDecreases ==
    Updated =>
        /\ \A k \in DOMAIN last.evals :
              LET e == last.evals[k]
                  post == At(last.applied, e.i)
                  aligned == /\ e.before.task_vector.valid # 0
                             /\ AboveThreshold(post.task_alignment)
              IN  /\ post.uid = e.before.uid
                  /\ post.fitness_score
                        = e.before.fitness_score
                          + (IF e.spawned THEN SPAWN_BONUS ELSE 0)
                          + (IF aligned THEN ALIGN_BONUS ELSE 0)
        /\ \A i \in 0 .. last.pre_count - 1, j \in Slots :
              At(last.pre_pool, i).uid = At(entity_pool, j).uid
                  => /\ At(entity_pool, j).fitness_score
                           >= At(last.pre_pool, i).fitness_score
                     /\ At(entity_pool, j).fitness_score
                           = At(last.applied, i).fitness_score

\* an update in which one entity gained 15, one gained 10 and one gained
\* nothing
C15_Witness ==
    /\ Updated
    /\ \E k \in DOMAIN last.evals : last.evals[k].spawned /\ last.evals[k].bonus
    /\ \E k \in DOMAIN last.evals : last.evals[k].spawned /\ ~last.evals[k].bonus
    /\ \E k \in DOMAIN last.evals : ~last.evals[k].spawned /\ ~last.evals[k].bonus

\* an update after which a surviving entity sits below the slot it had
C15_WitnessMoved ==
    /\ Updated
    /\ \E i \in 0 .. last.pre_count - 1, j \in Slots :
          /\ j < i
          /\ At(last.pre_pool, i).uid = At(entity_pool, j).uid
          /\ At(entity_pool, j).fitness_score > At(last.pre_pool, i).fitness_score

SpawnStep == calls' = Append(calls, "spawn")

\* C16: spawn_entity called with 32 entities returns NULL and leaves the
\* count, every entity slot and the store as they were; called with fewer it
\* returns the slot at the old count, the count grows by one, the new entity
\* has the old count as id, age 0, is active, has fitness 0, spawn count 0,
\* is not marked, is labelled "emergent", and every slot below the old count
\* is as it was.
C16_SpawnAtCapacityFails ==
    [][SpawnStep =>
          IF active_entity_count = MAX_ENTITIES
          THEN /\ last'.ret = NULL
               /\ active_entity_count' = active_entity_count
               /\ entity_pool' = entity_pool
               /\ holo_system' = holo_system
          ELSE /\ active_entity_count < MAX_ENTITIES
               /\ last'.ret = [kind |-> "entity", idx |-> active_entity_count]
               /\ active_entity_count' = active_entity_count + 1
               /\ LET new == At(entity_pool', active_entity_count)
                  IN  /\ new.id = active_entity_count
                      /\ new.age = 0
                      /\ new.is_active = 1
                      /\ new.fitness_score = 0
                      /\ new.spawn_count = 0
                      /\ new.marked_for_gc = 0
                      /\ new.domain_name = "emergent"
               /\ \A i \in 0 .. active_entity_count - 1 :
                      At(entity_pool', i) = At(entity_pool, i)]_vars

\* spawn_entity was called on the full arena
C16_Witness ==
    /\ last.op = "spawn"
    /\ last.ret = NULL
    /\ last.pre_count = MAX_ENTITIES

\* spawn_entity appended to a populated arena whose new slot held the
\* remains of a collected entity
C16_WitnessAppended ==
    /\ last.op = "spawn"
    /\ last.ret # NULL
    /\ last.pre_count > 0
    /\ At(last.pre_pool, last.pre_count).uid \in collected

\* C19: whatever the count was before, after initialize_emergent_entities
\* the count is min(INITIAL_ENTITIES, MAX_ENTITIES) and the live entities are
\* the fresh ones: ids 0 .. count - 1, age 0, active, fitness 0, label
\* "generic"; so that a second call gives the arena of the first.
C19_InitializeResets ==
    last.op = "initialize" =>
        /\ active_entity_count = Min(INITIAL_ENTITIES, MAX_ENTITIES)
        /\ \A i \in Slots :
              LET e == At(entity_pool, i)
              IN  /\ e.id = i
                  /\ e.age = 0
                  /\ e.is_active = 1
                  /\ e.fitness_score = 0
                  /\ e.domain_name = "generic"

\* the part of C19 the code keeps: called on the empty arena, initialize
\* leaves the three fresh entities
C19_InitializeFromEmpty ==
    (last.op = "initialize" /\ last.pre_count = 0) =>
        /\ active_entity_count = INITIAL_ENTITIES
        /\ \A i \in Slots :
              LET e == At(entity_pool, i)
              IN  /\ e.id = i
                  /\ e.age = 0
                  /\ e.is_active = 1
                  /\ e.fitness_score = 0
                  /\ e.domain_name = "generic"

\* C20: an entity that was in the arena before an update and is in it after
\* has the genome pointer, task vector, path id and id it had; and if none
\* of the three rules fired for it, also the active flag, state vector,
\* label and interaction count it had.
C20_UntouchedFieldsCarryOver ==
    Updated =>
        \A i \in 0 .. last.pre_count - 1, j \in Slots :
            LET pre == At(last.pre_pool, i)
                post == At(entity_pool, j)
            IN  pre.uid = post.uid =>
                    /\ post.genome = pre.genome
                    /\ post.task_vector = pre.task_vector
                    /\ post.path_id = pre.path_id
                    /\ post.id = pre.id
                    /\ last.evals[i + 1].rule = "none" =>
                          /\ post.is_active = pre.is_active
                          /\ post.state = pre.state
                          /\ post.domain_name = pre.domain_name
                          /\ post.interaction_count = pre.interaction_count

\* an update that an entity with a task vector and a path id survived with
\* no rule fired, a dormant entity survived with no rule fired, another
\* survived activated and another survived having spawned
C20_Witness ==
    /\ Updated
    /\ \E i \in 0 .. last.pre_count - 1 :
          /\ last.evals[i + 1].rule = "none"
          /\ At(last.pre_pool, i).path_id = PATH_ID
          /\ At(last.pre_pool, i).task_vector.valid = 1
          /\ InArena(At(last.pre_pool, i).uid)
    /\ \E i \in 0 .. last.pre_count - 1 :
          /\ last.evals[i + 1].rule = "none"
          /\ At(last.pre_pool, i).is_active = 0
          /\ InArena(At(last.pre_pool, i).uid)
    /\ \E i \in 0 .. last.pre_count - 1 :
          /\ last.evals[i + 1].rule = "activate"
          /\ InArena(At(last.pre_pool, i).uid)
    /\ \E i \in 0 .. last.pre_count - 1 :
          /\ last.evals[i + 1].rule = "spawn"
          /\ InArena(At(last.pre_pool, i).uid)

\* the evaluations of the last update that were made on a child of that call
ChildEvaluations ==
    {k \in 1 .. Len(last.evals) : last.evals[k].i >= last.pre_count}

\* C21: an update ends after at most MAX_ENTITIES iterations of its
\* evaluation loop, though the loop's bound grows with every spawn: the k-th
\* iteration is on index k - 1, the count never passes the capacity, and
\* the loop ends when the index reaches the count.
C21_UpdateIterationsBounded ==
    Updated =>
        /\ Len(last.evals) <= MAX_ENTITIES
        /\ \A k \in 1 .. Len(last.evals) :
              /\ last.evals[k].i = k - 1
              /\ last.evals[k].count_before <= last.evals[k].count_after
              /\ last.evals[k].count_after <= MAX_ENTITIES
              /\ k - 1 < last.evals[k].count_before
        /\ Len(last.evals) = last.applied_count

\* an update in which children were evaluated and one of them spawned in
\* turn, and which filled an arena that had room for several more
C21_Witness ==
    /\ Updated
    /\ last.pre_count < MAX_ENTITIES - 2
    /\ \E k \in ChildEvaluations : last.evals[k].spawned
    /\ Len(last.evals) = MAX_ENTITIES - 1

\* an update of a full arena: as many iterations as the arena has slots
C21_WitnessFull ==
    /\ Updated
    /\ last.pre_count = MAX_ENTITIES
    /\ Len(last.evals) = MAX_ENTITIES

\* the evaluations of the last update in which a child was spawned
Spawnings == {k \in 1 .. Len(last.evals) : last.evals[k].spawned}

\* C23: the apply phase of an update copies back only next_* entries that
\* the evaluation loop of the same call wrote: the indices written are
\* exactly those below the count at the apply phase.  A child spawned in
\* the call is evaluated later in the call, at the index it was put at,
\* and is in the arena with age 1 when the call returns.
C23_ApplyOnlyEvaluated ==
    Updated =>
        /\ last.written = 0 .. last.applied_count - 1
        /\ \A k \in Spawnings :
              /\ \E j \in k + 1 .. Len(last.evals) :
                    /\ last.evals[j].i = last.evals[k].count_before
                    /\ last.evals[j].before.uid = last.evals[k].child.uid
                    /\ last.evals[j].before.age = 0
              /\ \E s \in Slots :
                    At(entity_pool, s).uid = last.evals[k].child.uid
              /\ \A s \in Slots :
                    At(entity_pool, s).uid = last.evals[k].child.uid
                        => At(entity_pool, s).age = 1

\* an update in which a child of a child was spawned and older entities
\* were collected, so that the children moved to lower slots
C23_Witness ==
    /\ Updated
    /\ \E k \in Spawnings : last.evals[k].i >= last.pre_count
    /\ active_entity_count < last.applied_count

\* an update that spawned and collected nothing
C23_WitnessPlain ==
    /\ Updated
    /\ Spawnings # {}
    /\ active_entity_count = last.applied_count

----------------------------------------------------------------------------
(* Properties of kmain's loop *)

Timestamp == holo_system.global_timestamp

\* update_entities() is invoked in this step
UpdateInvoked == loop'.updates = loop.updates + 1

\* line 169 is executed in this step
TickIncrement == Timestamp' # Timestamp /\ ~UpdateInvoked

----------------------------------------------------------------------------
(* Properties of create_holographic_vector *)

Created == last.op = "create"

Dimensions == 0 .. HOLOGRAPHIC_DIMENSIONS - 1

\* the numerator, a uint32_t, has a value in 0 .. 999: the component, which
\* is (float)numerator / 1000.0f, then lies in [0, 0.999]
InUnitRange(numerator) == numerator[1] = 0 /\ numerator[2] < 1000

\* C18: every component of a created vector lies in [-1.0, 0.999], and a
\* dimension is non-zero only when the masked LCG value of that dimension is
\* a multiple of 10.  (A uint32_t numerator is never negative, so the
\* components in range are those in [0, 0.999].)
C18_ComponentsInUnitRange ==
    Created =>
        \A d \in Dimensions :
            LET c == last.data[d]
            IN  /\ c[1] = 0
                /\ InUnitRange(c[2])
                /\ c[2] # U32(0, 0) => last.seeds[d + 1] % 10 = 0

\* the part of C18 the code keeps: a dimension is non-zero only when its LCG
\* value is a multiple of 10, and the LCG values are 31-bit
C18_NonZeroOnlyAtTenths ==
    Created =>
        \A d \in Dimensions :
            /\ last.seeds[d + 1] \in 0 .. 2147483647
            /\ last.data[d][2] # U32(0, 0) => last.seeds[d + 1] % 10 = 0

----------------------------------------------------------------------------
(* Properties of the run of kmain from its entry *)

\* C22: in the run from the boot sequence the arena never holds more than
\* MAX_ENTITIES - 1 entities, during an update or between two; a spawn
\* that update_entities asks for never fails; and the last slot of the
\* arena is never written, so no live entity is in it.
C22_BootRunBelowCapacity ==
    /\ active_entity_count <= MAX_ENTITIES - 1
    /\ MAX_ENTITIES - 1 \notin Slots
    /\ At(entity_pool, MAX_ENTITIES - 1) = ZeroEntity
    /\ Updated =>
          /\ last.applied_count <= MAX_ENTITIES - 1
          /\ \A k \in 1 .. Len(last.evals) :
                /\ last.evals[k].count_after <= MAX_ENTITIES - 1
                /\ last.evals[k].rule = "spawn" => last.evals[k].spawned

\* the first update of the run: the three booted entities and their
\* children spawn until the arena holds MAX_ENTITIES - 1
C22_Witness ==
    /\ Updated
    /\ loop.updates = 1
    /\ last.pre_count = INITIAL_ENTITIES
    /\ \E k \in 1 .. Len(last.evals) : last.evals[k].spawned
    /\ active_entity_count = MAX_ENTITIES - 1

\* the update in which every entity has passed GC_AGE and is collected
C22_WitnessExtinct ==
    /\ Updated
    /\ loop.updates = GC_AGE + 1
    /\ last.pre_count = MAX_ENTITIES - 1
    /\ active_entity_count = 0

\* an update of the arena that the collection has emptied
C22_WitnessEmpty ==
    /\ Updated
    /\ loop.updates > GC_AGE + 1
    /\ last.pre_count = 0
    /\ active_entity_count = 0

====
